---- MODULE Spec2Model ----
(***************************************************************************)
(* A model of blowback's log persistence layer.                           *)
(*                                                                         *)
(*  - LogManager (rotating, src/unnamed/part_008): the default stream,    *)
(*    the registry of checkpoint streams, appendLog / readLogs / closeAll *)
(*    and the private helpers initializeLogFile, attachCheckpointStream,  *)
(*    isCheckpointStreamAttached and detachCheckpointStreams.             *)
(*  - The file system under it: fs.createWriteStream opens its file       *)
(*    asynchronously, buffers the writes handed to it, lands them in the  *)
(*    file in the order they were handed over and then calls each write's *)
(*    callback; end() stops new writes but still flushes the buffered     *)
(*    ones.                                                                *)
(*                                                                         *)
(* A log entry is identified by the number of the appendLog call that     *)
(* carries it (entry i belongs to the i-th call), so the order of the     *)
(* natural numbers is the order in which the calls were made.  Every      *)
(* entry is one non-blank line: the producer writes                       *)
(* JSON.stringify(...) + '\n' (src/src/tools/browser-tools.ts:1949-1959). *)
(***************************************************************************)
EXTENDS Integers, Sequences, FiniteSets, TLC

\* part_008:14 sets 10000; the model runs the same code with a small segment
\* size so that rotation happens within the explored runs.
MAX_LOGS_PER_FILE == 2
\* part_008:25 sets 3; scaled like the segment size, so that two checkpoint
\* ids are enough to exceed it.
MAX_CHECKPOINT_FILES == 1

\* Bounds of the exploration.
MaxAppends == 4
MaxInFlight == 2
MaxLimit == 5
MaxClmAppends == 4
MaxMethodAppends == 2
MaxNow == 2

\* The checkpoint argument of appendLog / readLogs: "" stands for undefined
\* (both are falsy in the code's `if (checkpointId ...)` and `checkpointId ?`).
NoCheckpoint == ""
\* The ids in the order of String.localeCompare (part_008:128).
SortedIds == <<"a", "b">>
CheckpointIds == {SortedIds[k] : k \in DOMAIN SortedIds}
CheckpointArgs == CheckpointIds \cup {NoCheckpoint}
\* The checkpoint ids handed to CheckpointLogManager.appendLog.
ClmIds == {"a", "b", "c"}
\* part_007:471 (`this.checkpointStreams.size > 2`)
MAX_CLM_STREAMS == 2

VARIABLES
    disk,               \* the log directory: file name -> the lines of the file
    handles,            \* every fs.WriteStream created so far, by creation order
    writeStream,        \* LogManager.writeStream: index into handles, 0 = null
    currentLogCount,    \* LogManager.currentLogCount
    currentFileNumber,  \* LogManager.currentFileNumber
    recs,               \* the stream-data objects ever put in checkpointStreams
    checkpointStreams,  \* LogManager.checkpointStreams: id -> index into recs
    calls,              \* the appendLog calls made so far; calls[i] carries entry i
    restart,            \* what was read before the process was restarted
    clmStreams,         \* CheckpointLogManager.checkpointStreams, in insertion order
    clmHandles,         \* the stream pairs CheckpointLogManager created
    clmDisk,            \* browser-console.<id>.log: id -> the lines of the file
    now,                \* Date.now()
    clmWrites,          \* per appendLog call of CheckpointLogManager: its checkpoint id
    exited,             \* the process has terminated (process.exit or the end of the loop)
    checkpoints,        \* the set-checkpoint tool's Map: its keys in insertion order
    setCalls,           \* the names of the set-checkpoint calls made so far
    lastHMREvents,      \* the HMR event buffer shared by the tools, newest first
    hmrAwaiting,        \* console / pageerror handlers waiting in appendLogToFile
    hmrCreated,         \* the number of events put in the buffer so far
    ws,                 \* ViteHMRClient.ws: index into sockets, 0 = null
    connected,          \* ViteHMRClient.connected
    connectionPromise,  \* ViteHMRClient.connectionPromise is not null
    sockets,            \* the WebSockets the client created: the state of each
    reading             \* the readLogs call in progress, <<>> when there is none

lmVars == <<disk, handles, writeStream, currentLogCount, currentFileNumber,
            recs, checkpointStreams, calls, restart>>
clmVars == <<clmStreams, clmHandles, clmDisk, now, clmWrites>>
hmrVars == <<lastHMREvents, hmrAwaiting, hmrCreated>>
viteVars == <<ws, connected, connectionPromise, sockets>>
srvVars == <<exited, checkpoints, setCalls, hmrVars, viteVars, reading>>
vars == <<lmVars, clmVars, srvVars>>

Max(a, b) == IF a >= b THEN a ELSE b
Min(a, b) == IF a <= b THEN a ELSE b
Range(s) == {s[i] : i \in DOMAIN s}

----------------------------------------------------------------------------
(* File names *)

\* A getLogFilePath that drops the checkpoint id from the name.
getLogFilePath_NoId(fileNumber, checkpointId) ==
    [prefix |-> "default-log", id |-> NoCheckpoint, number |-> fileNumber]

getLogFilePath(fileNumber, checkpointId) ==
    IF checkpointId # NoCheckpoint
    THEN [prefix |-> "chk", id |-> checkpointId, number |-> fileNumber]
    ELSE [prefix |-> "default-log", id |-> NoCheckpoint, number |-> fileNumber]

----------------------------------------------------------------------------
(* The in-memory state of the LogManager as one value, so that the helpers *)
(* that the handlers call can be composed.                                 *)

Mem == [handles |-> handles, writeStream |-> writeStream,
        currentLogCount |-> currentLogCount,
        currentFileNumber |-> currentFileNumber,
        recs |-> recs, checkpointStreams |-> checkpointStreams]

SetMem(m) ==
    /\ handles' = m.handles
    /\ writeStream' = m.writeStream
    /\ currentLogCount' = m.currentLogCount
    /\ currentFileNumber' = m.currentFileNumber
    /\ recs' = m.recs
    /\ checkpointStreams' = m.checkpointStreams

\* fs.createWriteStream(path, { flags: 'a' }): a new handle, not yet opened.
NewHandle(path) ==
    [file |-> path, pending |-> <<>>, unacked |-> <<>>,
     opened |-> FALSE, ended |-> FALSE]

createWriteStream(m, path) ==
    [m EXCEPT !.handles = Append(@, NewHandle(path))]

\* stream?.end(): no effect on null.
EndHandle(m, h) ==
    IF h = 0 THEN m ELSE [m EXCEPT !.handles[h].ended = TRUE]

\* stream.write(entry, cb): the entry of call i is handed to handle h.
WriteHandle(m, h, i) ==
    [m EXCEPT !.handles[h].pending = Append(@, i)]

----------------------------------------------------------------------------
(* LogManager's private helpers (part_008:66-137).  A stream-data object   *)
(* is a record of recs; checkpointStreams maps an id to the index of its   *)
(* object, so that a closure holding an object that was since replaced in  *)
(* the map still updates the old object, as in the code.  The timestamp    *)
(* field is written at part_008:89 and :114 and read nowhere; it is left   *)
(* out.                                                                    *)

HasStream(m, checkpointId) == checkpointId \in DOMAIN m.checkpointStreams
StreamData(m, checkpointId) == m.recs[m.checkpointStreams[checkpointId]]

SetStream(m, checkpointId, rec) ==
    LET r == Len(m.recs) + 1
    IN [m EXCEPT !.recs = Append(@, rec),
                 !.checkpointStreams =
                     [c \in DOMAIN @ \cup {checkpointId} |->
                         IF c = checkpointId THEN r ELSE @[c]]]

attachCheckpointStream(m, checkpointId) ==
    IF \/ ~HasStream(m, checkpointId)
       \/ StreamData(m, checkpointId).writeStream = 0
    THEN m
    ELSE LET detached == StreamData(m, checkpointId)
             m1 == createWriteStream(m,
                       getLogFilePath(detached.currentFileNumber, checkpointId))
         IN SetStream(m1, checkpointId,
                [writeStream |-> Len(m1.handles),
                 currentFileNumber |-> detached.currentFileNumber,
                 currentLogCount |-> detached.currentLogCount])

\* `stream && stream.writeStream !== null`: undefined for an unknown id.
isCheckpointStreamAttached(m, checkpointId) ==
    IF ~HasStream(m, checkpointId) THEN "undefined"
    ELSE IF StreamData(m, checkpointId).writeStream # 0 THEN "true"
    ELSE "false"

\* An initializeLogFile that keeps the default stream's record count when
\* it switches the segment.
initializeLogFile_KeepCount(m, checkpointId, nextFileNumber) ==
    LET m1 == createWriteStream(m, getLogFilePath(nextFileNumber, checkpointId))
        w == Len(m1.handles)
    IN IF /\ checkpointId # NoCheckpoint
          /\ HasStream(m1, checkpointId)
          /\ StreamData(m1, checkpointId).writeStream # 0
       THEN attachCheckpointStream(m1, checkpointId)
       ELSE IF checkpointId # NoCheckpoint
       THEN SetStream(m1, checkpointId,
                [writeStream |-> w,
                 currentFileNumber |-> nextFileNumber,
                 currentLogCount |-> 0])
       ELSE [EndHandle(m1, m1.writeStream) EXCEPT
                !.writeStream = w,
                !.currentFileNumber = nextFileNumber]

initializeLogFile(m, checkpointId, nextFileNumber) ==
    LET m1 == createWriteStream(m, getLogFilePath(nextFileNumber, checkpointId))
        w == Len(m1.handles)
    IN IF /\ checkpointId # NoCheckpoint
          /\ HasStream(m1, checkpointId)
          /\ StreamData(m1, checkpointId).writeStream # 0
       THEN attachCheckpointStream(m1, checkpointId)
       ELSE IF checkpointId # NoCheckpoint
       THEN \* part_008:84 ends the handle of an existing object; in this
            \* branch an existing object has writeStream = null.
            SetStream(m1, checkpointId,
                [writeStream |-> w,
                 currentFileNumber |-> nextFileNumber,
                 currentLogCount |-> 0])
       ELSE [EndHandle(m1, m1.writeStream) EXCEPT
                !.writeStream = w,
                !.currentFileNumber = nextFileNumber,
                !.currentLogCount = 0]

\* checkpointIds.sort(localeCompare).slice(0, -MAX_CHECKPOINT_FILES)
DetachedIds(m) ==
    LET ids == DOMAIN m.checkpointStreams
    IN {c \in ids :
          Cardinality({d \in ids :
              \E j, k \in DOMAIN SortedIds :
                  SortedIds[j] = c /\ SortedIds[k] = d /\ j < k})
            >= MAX_CHECKPOINT_FILES}

\* A detach that also forgets the detached stream's record count.
detachCheckpointStreams_Reset(m) ==
    LET out == DetachedIds(m)
        hit == {m.checkpointStreams[c] : c \in out}
        gone == {m.recs[r].writeStream : r \in hit}
    IN [m EXCEPT
          !.handles = [h \in DOMAIN @ |->
                          IF h \in gone THEN [@[h] EXCEPT !.ended = TRUE]
                          ELSE @[h]],
          !.recs = [r \in DOMAIN @ |->
                          IF r \in hit
                          THEN [@[r] EXCEPT !.writeStream = 0,
                                            !.currentLogCount = 0]
                          ELSE @[r]]]

detachCheckpointStreams(m) ==
    LET out == DetachedIds(m)
        hit == {m.checkpointStreams[c] : c \in out}
        gone == {m.recs[r].writeStream : r \in hit}
    IN [m EXCEPT
          !.handles = [h \in DOMAIN @ |->
                          IF h \in gone THEN [@[h] EXCEPT !.ended = TRUE]
                          ELSE @[h]],
          !.recs = [r \in DOMAIN @ |->
                          IF r \in hit THEN [@[r] EXCEPT !.writeStream = 0]
                          ELSE @[r]]]

----------------------------------------------------------------------------
(* readLogs (part_008:195-296), computed as the code computes it.          *)

\* part_008:199-216: the files of the directory whose name matches the
\* stream's pattern, sorted by their number, oldest first.
\* A sort that puts the newest segment first.
RECURSIVE SortByNumber_Desc(_)
SortByNumber_Desc(files) ==
    IF files = {} THEN <<>>
    ELSE LET f == CHOOSE g \in files : \A o \in files : g.number >= o.number
         IN <<f>> \o SortByNumber_Desc(files \ {f})

RECURSIVE SortByNumber(_)
SortByNumber(files) ==
    IF files = {} THEN <<>>
    ELSE LET f == CHOOSE g \in files : \A o \in files : g.number <= o.number
         IN <<f>> \o SortByNumber(files \ {f})

\* The matching files of a directory d.
LogFilesIn(d, checkpointId) ==
    SortByNumber({f \in DOMAIN d :
                    f.prefix = getLogFilePath(0, checkpointId).prefix
                    /\ f.id = getLogFilePath(0, checkpointId).id})

LogFiles(checkpointId) == LogFilesIn(disk, checkpointId)

\* Reading one file without the break of part_008:279-282: every line
\* after the skipped ones is pushed.
ReadLines_NoBreak(lines, skip, needed) ==
    SubSeq(lines, Min(skip, Len(lines)) + 1, Len(lines))

\* part_008:267-283 on one file: skip `skip` lines, then push lines while
\* logs are needed.
ReadLines(lines, skip, needed) ==
    LET rest == SubSeq(lines, Min(skip, Len(lines)) + 1, Len(lines))
    IN SubSeq(rest, 1, Min(needed, Len(rest)))

\* part_008:251-284; i is the code's 0-based index into logFiles.
RECURSIVE ReadFiles(_, _, _, _, _, _)
ReadFiles(d, logFiles, i, startFileIndex, startLogInFile, logsNeeded) ==
    IF ~(i < Len(logFiles) /\ logsNeeded > 0) THEN <<>>
    ELSE LET linesToSkip == IF i = startFileIndex /\ startLogInFile > 0
                            THEN startLogInFile ELSE 0
             got == ReadLines(d[logFiles[i + 1]], linesToSkip, logsNeeded)
         IN got \o ReadFiles(d, logFiles, i + 1, startFileIndex,
                             startLogInFile, logsNeeded - Len(got))

\* A readLogs without the early return of part_008:218-220.
readLogsIn_NoEmptyCheck(m, d, limit, checkpointId) ==
    LET logFiles == LogFilesIn(d, checkpointId)
        lastFileIndex == Len(logFiles) - 1
        completedFilesLogs == lastFileIndex * MAX_LOGS_PER_FILE
        currentFileLogCount ==
            IF checkpointId # NoCheckpoint
            THEN IF HasStream(m, checkpointId)
                 THEN StreamData(m, checkpointId).currentLogCount ELSE 0
            ELSE m.currentLogCount
        totalLogs == completedFilesLogs + currentFileLogCount
    IN IF totalLogs = 0
       THEN [logs |-> <<>>, writePosition |-> currentFileLogCount,
             totalLogs |-> 0]
       ELSE
       LET startPosition == Max(0, totalLogs - limit)
           startFileIndex == startPosition \div MAX_LOGS_PER_FILE
           startLogInFile == startPosition % MAX_LOGS_PER_FILE
           logsNeeded == Min(limit, totalLogs)
       IN [logs |-> ReadFiles(d, logFiles, startFileIndex, startFileIndex,
                              startLogInFile, logsNeeded),
           writePosition |-> currentFileLogCount,
           totalLogs |-> totalLogs]

\* readLogs with the manager's fields m and the directory d.
readLogsIn(m, d, limit, checkpointId) ==
    LET logFiles == LogFilesIn(d, checkpointId)
    IN IF Len(logFiles) = 0
       THEN [logs |-> <<>>, writePosition |-> 0, totalLogs |-> 0]
       ELSE
       LET lastFileIndex == Len(logFiles) - 1
           completedFilesLogs == lastFileIndex * MAX_LOGS_PER_FILE
           currentFileLogCount ==
               IF checkpointId # NoCheckpoint
               THEN IF HasStream(m, checkpointId)
                    THEN StreamData(m, checkpointId).currentLogCount ELSE 0
               ELSE m.currentLogCount
           totalLogs == completedFilesLogs + currentFileLogCount
       IN IF totalLogs = 0
          THEN [logs |-> <<>>, writePosition |-> currentFileLogCount,
                totalLogs |-> 0]
          ELSE
          LET startPosition == Max(0, totalLogs - limit)
              startFileIndex == startPosition \div MAX_LOGS_PER_FILE
              startLogInFile == startPosition % MAX_LOGS_PER_FILE
              logsNeeded == Min(limit, totalLogs)
          IN [logs |-> ReadFiles(d, logFiles, startFileIndex, startFileIndex,
                                 startLogInFile, logsNeeded),
              writePosition |-> currentFileLogCount,
              totalLogs |-> totalLogs]

readLogs(limit, checkpointId) == readLogsIn(Mem, disk, limit, checkpointId)

----------------------------------------------------------------------------
(* The state after construction (part_008:27-34): initializeLogFile() on   *)
(* an empty log directory (constants.ts creates a fresh random directory   *)
(* per process).                                                           *)

EmptyMem == [handles |-> <<>>, writeStream |-> 0, currentLogCount |-> 0,
             currentFileNumber |-> 0, recs |-> <<>>,
             checkpointStreams |-> <<>>]

Constructed == initializeLogFile(EmptyMem, NoCheckpoint, 0)

Init ==
    /\ disk = <<>>
    /\ handles = Constructed.handles
    /\ writeStream = Constructed.writeStream
    /\ currentLogCount = Constructed.currentLogCount
    /\ currentFileNumber = Constructed.currentFileNumber
    /\ recs = Constructed.recs
    /\ checkpointStreams = Constructed.checkpointStreams
    /\ calls = <<>>
    /\ restart = [at |-> -1, logs |-> <<>>]
    /\ clmStreams = <<>>
    /\ clmHandles = <<>>
    /\ clmDisk = <<>>
    /\ now = 0
    /\ clmWrites = <<>>
    /\ exited = FALSE
    /\ checkpoints = <<>>
    /\ setCalls = <<>>
    /\ lastHMREvents = <<>>
    /\ hmrAwaiting = <<>>
    /\ hmrCreated = 0
    /\ ws = 0
    /\ connected = FALSE
    /\ connectionPromise = FALSE
    /\ sockets = <<>>
    /\ reading = <<>>

----------------------------------------------------------------------------
(* appendLog (part_008:139-193).  A call is at one of these places:        *)
(*   "default"  its write to the default stream awaits its callback        *)
(*   "resumed"  the first await returned; lines 163-189 have not run yet   *)
(*   "attached" `await attachCheckpointStream` (line 165) has not returned *)
(*   "chk"      the second promise (line 169) is awaited                   *)
(*   "done"     the call returned                                         *)
(* wrote: the handles the entry was handed to (default, checkpoint).       *)
(* writeError: a write callback of the call was called with an error.      *)

InFlight == {i \in DOMAIN calls : calls[i].pc # "done"}

NewCall(checkpointId, pc, h) ==
    [checkpointId |-> checkpointId, pc |-> pc, wroteDefault |-> h,
     wroteCheckpoint |-> 0, streamData |-> 0, writeError |-> FALSE]

\* A write handed to an ended stream fails (write after end): its callback
\* gets the error.
Writable(m, h) == h # 0 /\ ~m.handles[h].ended

\* part_008:142-161, the synchronous part of the call.
AppendLog(checkpointId) ==
    /\ Len(calls) < MaxAppends
    /\ Cardinality(InFlight) < MaxInFlight
    /\ LET i == Len(calls) + 1
       IN IF Writable(Mem, writeStream)
          THEN /\ SetMem(WriteHandle(Mem, writeStream, i))
               /\ calls' = Append(calls, NewCall(checkpointId, "default", writeStream))
          ELSE \* rejected at line 146 (or by the ended stream), caught at 190
               /\ SetMem(Mem)
               /\ calls' = Append(calls, NewCall(checkpointId, "done", 0))
    /\ UNCHANGED <<disk, restart, clmVars, srvVars>>

\* part_008:168-188: the second promise's executor.
CheckpointWrite(m, i) ==
    LET c == calls[i].checkpointId
    IN IF ~HasStream(m, c)
       THEN \* rejected at line 173, caught at line 190
            [mem |-> m, call |-> [calls[i] EXCEPT !.pc = "done"]]
       ELSE LET r == m.checkpointStreams[c]
                h == m.recs[r].writeStream
            IN IF h = 0
               THEN \* `writeStream?.write` does nothing: never settled
                    [mem |-> m,
                     call |-> [calls[i] EXCEPT !.pc = "chk", !.streamData = r]]
               ELSE IF ~Writable(m, h)
               THEN [mem |-> m, call |-> [calls[i] EXCEPT !.pc = "done"]]
               ELSE [mem |-> WriteHandle(m, h, i),
                     call |-> [calls[i] EXCEPT !.pc = "chk", !.streamData = r,
                                               !.wroteCheckpoint = h]]

\* part_008:163-189 after the first await returned.
Resume(i) ==
    /\ i \in DOMAIN calls
    /\ calls[i].pc = "resumed"
    /\ LET c == calls[i].checkpointId
       IN IF isCheckpointStreamAttached(Mem, c) = "false"
          THEN /\ SetMem(attachCheckpointStream(Mem, c))
               /\ calls' = [calls EXCEPT ![i].pc = "attached"]
          ELSE LET w == CheckpointWrite(Mem, i)
               IN /\ SetMem(w.mem)
                  /\ calls' = [calls EXCEPT ![i] = w.call]
    /\ UNCHANGED <<disk, restart, clmVars, srvVars>>

\* part_008:168-189 after `await this.attachCheckpointStream(...)` returned.
ResumeAttached(i) ==
    /\ i \in DOMAIN calls
    /\ calls[i].pc = "attached"
    /\ LET w == CheckpointWrite(Mem, i)
       IN /\ SetMem(w.mem)
          /\ calls' = [calls EXCEPT ![i] = w.call]
    /\ UNCHANGED <<disk, restart, clmVars, srvVars>>

----------------------------------------------------------------------------
(* The file system's steps on a write stream.                              *)

\* The stream's file is opened (flags 'a': created when absent).
FsOpen(h) ==
    /\ h \in DOMAIN handles
    /\ ~handles[h].opened
    /\ handles' = [handles EXCEPT ![h].opened = TRUE]
    /\ disk' = LET f == handles[h].file
               IN IF f \in DOMAIN disk THEN disk
                  ELSE [g \in DOMAIN disk \cup {f} |->
                           IF g = f THEN <<>> ELSE disk[g]]
    /\ UNCHANGED <<writeStream, currentLogCount, currentFileNumber, recs,
                   checkpointStreams, calls, restart, clmVars, srvVars>>

\* A write that lands at the start of the file instead of its end.
FsWrite_AtStart(h) ==
    /\ h \in DOMAIN handles
    /\ handles[h].opened
    /\ handles[h].pending # <<>>
    /\ LET i == Head(handles[h].pending)
       IN /\ disk' = [disk EXCEPT ![handles[h].file] = <<i>> \o @]
          /\ handles' = [handles EXCEPT ![h].pending = Tail(@),
                                        ![h].unacked = Append(@, i)]
    /\ UNCHANGED <<writeStream, currentLogCount, currentFileNumber, recs,
                   checkpointStreams, calls, restart, clmVars, srvVars>>

\* The oldest buffered write of the stream lands at the end of its file.
FsWrite(h) ==
    /\ h \in DOMAIN handles
    /\ handles[h].opened
    /\ handles[h].pending # <<>>
    /\ LET i == Head(handles[h].pending)
       IN /\ disk' = [disk EXCEPT ![handles[h].file] = Append(@, i)]
          /\ handles' = [handles EXCEPT ![h].pending = Tail(@),
                                        ![h].unacked = Append(@, i)]
    /\ UNCHANGED <<writeStream, currentLogCount, currentFileNumber, recs,
                   checkpointStreams, calls, restart, clmVars, srvVars>>

\* A callback that rotates one entry late (> instead of >=).
DefaultWritten_Late(m) ==
    LET m1 == [m EXCEPT !.currentLogCount = @ + 1]
    IN IF m1.currentLogCount > MAX_LOGS_PER_FILE
       THEN initializeLogFile(m1, NoCheckpoint, m1.currentFileNumber + 1)
       ELSE m1

\* part_008:150-160, the callback of a write to the default stream.
DefaultWritten(m) ==
    LET m1 == [m EXCEPT !.currentLogCount = @ + 1]
    IN IF m1.currentLogCount >= MAX_LOGS_PER_FILE
       THEN initializeLogFile(m1, NoCheckpoint, m1.currentFileNumber + 1)
       ELSE m1

\* part_008:177-187, the callback of a write to a checkpoint stream; r is
\* the stream-data object the executor read at line 170.
CheckpointWritten(m, r, checkpointId) ==
    LET m1 == [m EXCEPT !.recs[r].currentLogCount = @ + 1]
    IN IF m1.recs[r].currentLogCount >= MAX_LOGS_PER_FILE
       THEN initializeLogFile(m1, checkpointId,
                              m1.recs[r].currentFileNumber + 1)
       ELSE m1

\* The callback of the oldest landed write of the stream is called.
FsAck(h) ==
    /\ h \in DOMAIN handles
    /\ handles[h].unacked # <<>>
    /\ LET i == Head(handles[h].unacked)
           m == [Mem EXCEPT !.handles[h].unacked = Tail(@)]
       IN IF calls[i].pc = "default"
          THEN /\ SetMem(DefaultWritten(m))
               /\ calls' = [calls EXCEPT ![i].pc =
                               IF calls[i].checkpointId # NoCheckpoint
                               THEN "resumed" ELSE "done"]
          ELSE /\ SetMem(CheckpointWritten(m, calls[i].streamData,
                                           calls[i].checkpointId))
               /\ calls' = [calls EXCEPT ![i].pc = "done"]
    /\ UNCHANGED <<disk, restart, clmVars, srvVars>>

----------------------------------------------------------------------------
(* close / closeAll (part_008:308-326).                                    *)

close(m) ==
    IF m.writeStream # 0
    THEN [EndHandle(m, m.writeStream) EXCEPT !.writeStream = 0]
    ELSE m

closeAll(m) ==
    LET m1 == close(m)
        gone == {StreamData(m1, c).writeStream : c \in DOMAIN m1.checkpointStreams}
    IN [m1 EXCEPT
          !.handles = [h \in DOMAIN @ |->
                          IF h \in gone THEN [@[h] EXCEPT !.ended = TRUE]
                          ELSE @[h]],
          !.checkpointStreams = <<>>]

CloseAll ==
    /\ writeStream # 0 \/ DOMAIN checkpointStreams # {}
    /\ SetMem(closeAll(Mem))
    /\ UNCHANGED <<disk, calls, restart, clmVars, srvVars>>

----------------------------------------------------------------------------
(* The program as its callers drive it: appendLog from the console        *)
(* listeners, closeAll from the exit handlers, and the file system.        *)

Next ==
    \/ \E c \in CheckpointArgs : AppendLog(c)
    \/ \E i \in DOMAIN calls : Resume(i)
    \/ \E h \in DOMAIN handles : FsOpen(h)
    \/ \E h \in DOMAIN handles : FsWrite(h)
    \/ \E h \in DOMAIN handles : FsAck(h)
    \/ CloseAll

Spec == Init /\ [][Next]_vars

----------------------------------------------------------------------------
(* Vocabulary of the properties.                                           *)

Limits == 0 .. MaxLimit

\* No write awaits its landing or its callback, every created stream has
\* opened its file, and no appendLog call is between two of its steps.
Quiescent ==
    /\ \A h \in DOMAIN handles :
          handles[h].opened /\ handles[h].pending = <<>>
                            /\ handles[h].unacked = <<>>
    /\ \A i \in DOMAIN calls : calls[i].pc \in {"done", "chk"}

\* The entries a stream holds on disk: its segment files, oldest first.
RECURSIVE Concat(_, _)
Concat(files, k) ==
    IF k > Len(files) THEN <<>> ELSE disk[files[k]] \o Concat(files, k + 1)

StreamContent(checkpointId) == Concat(LogFiles(checkpointId), 1)

LastN(s, n) == SubSeq(s, Len(s) - Min(n, Len(s)) + 1, Len(s))

IsAscending(s) == \A j, k \in DOMAIN s : j < k => s[j] < s[k]

\* The calls whose entry was handed to the default stream (to the stream
\* of checkpoint c), in the order the calls were made.
RECURSIVE Ascending(_)
Ascending(S) ==
    IF S = {} THEN <<>>
    ELSE LET x == CHOOSE y \in S : \A z \in S : y <= z
         IN <<x>> \o Ascending(S \ {x})

AppendedTo(checkpointId) ==
    Ascending({i \in DOMAIN calls :
        IF checkpointId = NoCheckpoint THEN calls[i].wroteDefault # 0
        ELSE calls[i].checkpointId = checkpointId
             /\ calls[i].wroteCheckpoint # 0})

\* The stream's total count as readLogs reports it.
TotalLogs(checkpointId) == readLogs(0, checkpointId).totalLogs

----------------------------------------------------------------------------
\* C1: every appendLog(entry, c) with a checkpoint id c that completed
\* without a write error left its entry readable both from the default
\* stream and from checkpoint c's stream, with any limit that is at least
\* the stream's total count.
C1_Claim ==
    \A i \in DOMAIN calls :
        (/\ calls[i].pc = "done"
         /\ calls[i].checkpointId # NoCheckpoint
         /\ calls[i].wroteDefault # 0)
        => \A L \in Limits :
             /\ L >= TotalLogs(NoCheckpoint)
                  => i \in Range(readLogs(L, NoCheckpoint).logs)
             /\ L >= TotalLogs(calls[i].checkpointId)
                  => i \in Range(readLogs(L, calls[i].checkpointId).logs)

C3_Claim ==
    Quiescent =>
        \A c \in CheckpointArgs : \A L \in Limits :
            LET content == StreamContent(c)
                r == readLogs(L, c)
            IN /\ r.logs = LastN(content, Min(L, Len(content)))
               /\ r.totalLogs = Len(content)

\* C4: order preservation: readLogs with the stream's total count as limit
\* returns entries in the order of their appendLog calls, and in a
\* quiescent state it returns every appended entry, across segments and
\* for appends that were in flight together.
C4_OrderPreserved ==
    \A c \in CheckpointArgs :
        LET r == readLogs(TotalLogs(c), c)
        IN /\ IsAscending(r.logs)
           /\ Quiescent => r.logs = AppendedTo(c)

\* A quiescent default stream whose first segment took an entry that was in
\* flight when the segment rotated, and whose entries span two segments.
C4_Witness ==
    /\ Quiescent
    /\ getLogFilePath(1, NoCheckpoint) \in DOMAIN disk
    /\ Len(disk[getLogFilePath(0, NoCheckpoint)]) > MAX_LOGS_PER_FILE
    /\ disk[getLogFilePath(1, NoCheckpoint)] # <<>>
    /\ readLogs(TotalLogs(NoCheckpoint), NoCheckpoint).logs
         = AppendedTo(NoCheckpoint)

----------------------------------------------------------------------------
(* Sequential use: the caller awaits each appendLog before the next one    *)
(* (`await logManager.appendLog(...)`, browser-tools.ts:1959, with one     *)
(* console event at a time).                                               *)

SeqAppendLog(checkpointId) ==
    /\ InFlight = {}
    /\ AppendLog(checkpointId)

NextSequential ==
    \/ \E c \in CheckpointArgs : SeqAppendLog(c)
    \/ \E i \in DOMAIN calls : Resume(i)
    \/ \E h \in DOMAIN handles : FsOpen(h)
    \/ \E h \in DOMAIN handles : FsWrite(h)
    \/ \E h \in DOMAIN handles : FsAck(h)
    \/ CloseAll

SpecSequential == Init /\ [][NextSequential]_vars

\* The number of entries appended to the default stream.
Appended == Len(AppendedTo(NoCheckpoint))

SegmentSizes(checkpointId) ==
    LET files == LogFiles(checkpointId)
    IN [k \in DOMAIN files |-> Len(disk[files[k]])]

----------------------------------------------------------------------------
(* Restart: a new process builds a LogManager (part_008:27-34) over the    *)
(* log directory the previous one left.  The previous process had nothing  *)
(* in flight; its streams are gone with it.                                *)

Restart ==
    /\ Quiescent
    /\ restart.at = -1
    /\ Appended >= 1
    /\ restart' = [at |-> Len(calls),
                   logs |-> readLogs(Appended, NoCheckpoint).logs]
    /\ SetMem(Constructed)
    /\ UNCHANGED <<disk, calls, clmVars, srvVars>>

NextRestart == Next \/ Restart

SpecRestart == Init /\ [][NextRestart]_vars

\* C6: a LogManager restarted over the same segment files returns, for
\* readLogs(limit = M), the M entries that were read before the restart,
\* in the same order.
C6_Claim ==
    (restart.at = Len(calls)) =>
        readLogs(Appended, NoCheckpoint).logs = restart.logs

----------------------------------------------------------------------------
(* CheckpointLogManager (src/unnamed/part_007:415-528), the manager with   *)
(* one file per checkpoint.  A stream pair (CircularLogStream piped into a *)
(* WriteStream) is one handle: the Transform is built with a `transform`   *)
(* option (part_007:210-215), which Node installs as the instance's        *)
(* _transform, so every chunk passes through unchanged.  Entry n is the    *)
(* entry of the n-th appendLog call.                                       *)

ClmIdsOf(streams) == {streams[k].id : k \in DOMAIN streams}

ClmStream(id) ==
    clmStreams[CHOOSE k \in DOMAIN clmStreams : clmStreams[k].id = id]

\* part_007:472-480: the first entry, in the Map's iteration order, with
\* the smallest timestamp.
ClmOldest(streams) ==
    CHOOSE k \in DOMAIN streams :
        \A j \in DOMAIN streams :
            \/ streams[j].timestamp > streams[k].timestamp
            \/ streams[j].timestamp = streams[k].timestamp /\ j >= k

ClmRemove(streams, k) ==
    SubSeq(streams, 1, k - 1) \o SubSeq(streams, k + 1, Len(streams))

\* An eviction that starts one stream too late.
ClmEvict_Late(streams, hs) ==
    IF Len(streams) > MAX_CLM_STREAMS + 1
    THEN LET k == ClmOldest(streams)
         IN [streams |-> ClmRemove(streams, k),
             handles |-> [hs EXCEPT ![streams[k].stream].ended = TRUE]]
    ELSE [streams |-> streams, handles |-> hs]

\* part_007:470-490: end and forget the oldest stream when there are more
\* than two.
ClmEvict(streams, hs) ==
    IF Len(streams) > MAX_CLM_STREAMS
    THEN LET k == ClmOldest(streams)
         IN [streams |-> ClmRemove(streams, k),
             handles |-> [hs EXCEPT ![streams[k].stream].ended = TRUE]]
    ELSE [streams |-> streams, handles |-> hs]

\* part_007:449-503.  The write at line 499 goes to the stream found or
\* created by this call.
ClmAppendLog(id) ==
    /\ Len(clmWrites) < MaxClmAppends
    /\ LET n == Len(clmWrites) + 1
       IN IF id \in ClmIdsOf(clmStreams)
          THEN /\ clmHandles' = [clmHandles EXCEPT
                                   ![ClmStream(id).stream].pending = Append(@, n)]
               /\ UNCHANGED clmStreams
          ELSE LET h == Len(clmHandles) + 1
                   hs == Append(clmHandles,
                                [file |-> id, pending |-> <<>>, ended |-> FALSE])
                   ev == ClmEvict(Append(clmStreams,
                             [id |-> id, stream |-> h, timestamp |-> now]), hs)
               IN /\ clmStreams' = ev.streams
                  /\ clmHandles' = [ev.handles EXCEPT ![h].pending =
                                       IF ev.handles[h].ended THEN @
                                       ELSE Append(@, n)]
    /\ clmWrites' = Append(clmWrites, id)
    /\ UNCHANGED <<clmDisk, now, lmVars, srvVars>>

\* The oldest buffered chunk of a stream pair lands in its file (created
\* when absent); an ended pair still flushes what it was handed.
ClmFsWrite(h) ==
    /\ h \in DOMAIN clmHandles
    /\ clmHandles[h].pending # <<>>
    /\ LET f == clmHandles[h].file
           n == Head(clmHandles[h].pending)
       IN clmDisk' = [g \in DOMAIN clmDisk \cup {f} |->
                        IF g = f
                        THEN (IF f \in DOMAIN clmDisk THEN clmDisk[f] ELSE <<>>)
                             \o <<n>>
                        ELSE clmDisk[g]]
    /\ clmHandles' = [clmHandles EXCEPT ![h].pending = Tail(@)]
    /\ UNCHANGED <<clmStreams, now, clmWrites, lmVars, srvVars>>

\* Date.now() advances.
ClmTick ==
    /\ now < MaxNow
    /\ now' = now + 1
    /\ UNCHANGED <<clmStreams, clmHandles, clmDisk, clmWrites, lmVars, srvVars>>

NextCLM ==
    \/ \E id \in ClmIds : ClmAppendLog(id)
    \/ \E h \in DOMAIN clmHandles : ClmFsWrite(h)
    \/ ClmTick

SpecCLM == Init /\ [][NextCLM]_vars

\* The write handles that were created and not ended.
ClmOpenHandles == {h \in DOMAIN clmHandles : ~clmHandles[h].ended}

\* The checkpoint streams of the rotating LogManager that hold a handle.
AttachedStreams ==
    {c \in DOMAIN checkpointStreams : StreamData(Mem, c).writeStream # 0}

\* C7: eviction bound: in every reachable state at most the configured
\* number of checkpoint streams hold an open write handle, in
\* CheckpointLogManager (no handle it created and did not end is left
\* outside its map) and in the rotating LogManager.
C7_EvictionBound ==
    /\ Cardinality(ClmOpenHandles) <= MAX_CLM_STREAMS
    /\ ClmOpenHandles = {clmStreams[k].stream : k \in DOMAIN clmStreams}
    /\ Cardinality(AttachedStreams) <= MAX_CHECKPOINT_FILES

\* Three distinct checkpoints were written and one of their streams was
\* evicted.
C7_Witness ==
    /\ Cardinality({clmWrites[n] : n \in DOMAIN clmWrites}) = 3
    /\ Len(clmHandles) >= 3
    /\ Cardinality(ClmOpenHandles) = MAX_CLM_STREAMS

\* The number of the latest appendLog call for a checkpoint (0: none).
ClmLastWrite(id) ==
    LET ns == {n \in DOMAIN clmWrites : clmWrites[n] = id}
    IN IF ns = {} THEN 0 ELSE CHOOSE n \in ns : \A o \in ns : n >= o

\* C8: eviction order: a stream that is detached was written to no later
\* than every other stream that was attached at that moment.
C8_Claim ==
    [][\A v \in ClmIdsOf(clmStreams) \ ClmIdsOf(clmStreams') :
          \A o \in ClmIdsOf(clmStreams) \ {v} :
              ClmLastWrite(v) <= ClmLastWrite(o)]_vars

----------------------------------------------------------------------------
(* The LogManager driven method by method.  appendLog never registers a    *)
(* checkpoint stream and nothing calls detachCheckpointStreams, so the     *)
(* states in which a checkpoint stream is attached or detached are reached *)
(* only when the private methods that handle them are called:              *)
(* initializeLogFile({ checkpointId }) for an id the registry does not     *)
(* hold, and detachCheckpointStreams().                                    *)

InitCheckpoint(checkpointId) ==
    /\ ~HasStream(Mem, checkpointId)
    /\ SetMem(initializeLogFile(Mem, checkpointId, 0))
    /\ UNCHANGED <<disk, calls, restart, clmVars, srvVars>>

Detach ==
    /\ \E c \in DetachedIds(Mem) : StreamData(Mem, c).writeStream # 0
    /\ SetMem(detachCheckpointStreams(Mem))
    /\ UNCHANGED <<disk, calls, restart, clmVars, srvVars>>

MethodAppendLog(checkpointId) ==
    /\ Len(calls) < MaxMethodAppends
    /\ AppendLog(checkpointId)

NextMethods ==
    \/ \E c \in CheckpointIds : MethodAppendLog(c)
    \/ \E i \in DOMAIN calls : Resume(i)
    \/ \E i \in DOMAIN calls : ResumeAttached(i)
    \/ \E h \in DOMAIN handles : FsOpen(h)
    \/ \E h \in DOMAIN handles : FsWrite(h)
    \/ \E h \in DOMAIN handles : FsAck(h)
    \/ \E c \in CheckpointIds : InitCheckpoint(c)
    \/ Detach

SpecMethods == Init /\ [][NextMethods]_vars

\* The checkpoint streams that are registered without a write handle.
DetachedStreams ==
    {c \in DOMAIN checkpointStreams : StreamData(Mem, c).writeStream = 0}

\* C9: a detach releases only the write handle: in every reachable state
\* where detachCheckpointStreams detaches an attached stream, the stream
\* stays registered with the counters it had, only its handle becomes
\* null, and every readLogs of that checkpoint returns after the detach
\* what it returned before it (the same entries in the same order, the
\* same totalLogs); the detach touches no file (Detach leaves disk as it
\* is).
C9_DetachKeepsHistory ==
    \A c \in DetachedIds(Mem) :
          StreamData(Mem, c).writeStream # 0 =>
            LET after == detachCheckpointStreams(Mem)
            IN /\ HasStream(after, c)
               /\ StreamData(after, c).writeStream = 0
               /\ StreamData(after, c).currentLogCount
                    = StreamData(Mem, c).currentLogCount
               /\ StreamData(after, c).currentFileNumber
                    = StreamData(Mem, c).currentFileNumber
               /\ \A L \in Limits :
                     readLogsIn(after, disk, L, c) = readLogs(L, c)

\* Checkpoint "a" was detached after an entry was stored in its stream, and
\* the entry and the count are still read.
C9_Witness ==
    /\ "a" \in DetachedStreams
    /\ Quiescent
    /\ StreamContent("a") # <<>>
    /\ readLogs(MaxLimit, "a").logs = StreamContent("a")
    /\ TotalLogs("a") = Len(StreamContent("a"))

----------------------------------------------------------------------------
\* C11: readLogs for a stream that has no segment file on disk returns
\* logs = [] and totalLogs = 0 as its result, for every limit, whatever
\* the manager holds in memory for that stream.
C11_EmptyRead ==
    \A c \in CheckpointArgs : \A L \in Limits :
        LogFiles(c) = <<>>
        => readLogs(L, c)
             = [logs |-> <<>>, writePosition |-> 0, totalLogs |-> 0]

\* An appendLog for checkpoint "a" returned and the default stream holds
\* its entry, while no file of checkpoint "a" exists and a read of "a"
\* returns nothing.
C11_Witness ==
    /\ \E i \in DOMAIN calls :
          /\ calls[i].checkpointId = "a" /\ calls[i].pc = "done"
          /\ i \in Range(StreamContent(NoCheckpoint))
    /\ LogFiles("a") = <<>>
    /\ readLogs(MaxLimit, "a").logs = <<>>
    /\ readLogs(MaxLimit, NoCheckpoint).logs # <<>>

----------------------------------------------------------------------------
(* A failing file system: the write (or the open) of a stream is rejected  *)
(* (disk full, permission denied).  The stream is destroyed: the callback  *)
(* of the failed write and of every write still buffered behind it is      *)
(* called with an error, and the stream takes no further write.  In        *)
(* appendLog the callback rejects the awaited promise (part_008:151,       *)
(* :178), the rejection is caught at part_008:190-192 and the function     *)
(* returns.                                                                *)

\* A failed default write after which appendLog goes on to the checkpoint
\* write instead of rejecting.
FsFail_GoOn(h) ==
    /\ h \in DOMAIN handles
    /\ handles[h].pending # <<>>
    /\ handles' = [handles EXCEPT ![h].pending = <<>>, ![h].ended = TRUE]
    /\ calls' = [i \in DOMAIN calls |->
                    IF i \in Range(handles[h].pending)
                    THEN IF calls[i].pc = "default"
                            /\ calls[i].checkpointId # NoCheckpoint
                         THEN [calls[i] EXCEPT !.pc = "resumed",
                                               !.writeError = TRUE]
                         ELSE [calls[i] EXCEPT !.pc = "done",
                                               !.writeError = TRUE]
                    ELSE calls[i]]
    /\ UNCHANGED <<disk, writeStream, currentLogCount, currentFileNumber,
                   recs, checkpointStreams, restart, clmVars, srvVars>>

FsFail(h) ==
    /\ h \in DOMAIN handles
    /\ handles[h].pending # <<>>
    /\ handles' = [handles EXCEPT ![h].pending = <<>>, ![h].ended = TRUE]
    /\ calls' = [i \in DOMAIN calls |->
                    IF i \in Range(handles[h].pending)
                    THEN [calls[i] EXCEPT !.pc = "done", !.writeError = TRUE]
                    ELSE calls[i]]
    /\ UNCHANGED <<disk, writeStream, currentLogCount, currentFileNumber,
                   recs, checkpointStreams, restart, clmVars, srvVars>>

NextFail ==
    \/ Next
    \/ \E h \in DOMAIN handles : FsFail(h)

SpecFail == Init /\ [][NextFail]_vars

\* What the caller of appendLog observes of call i.  The async function
\* returns undefined at the end of its try block and at the end of its
\* catch block (part_008:140, 190-192): no path of it throws.
Outcome(i) == IF calls[i].pc = "done" THEN "fulfilled" ELSE "pending"

\* C12: when the underlying file write of an append fails, the appendLog
\* call fails: its promise is rejected with the write error.
C12_Claim ==
    \A i \in DOMAIN calls :
        calls[i].writeError => Outcome(i) = "rejected"

----------------------------------------------------------------------------
(* closeAll after the streams were driven method by method.  Once the      *)
(* manager is closed the methods are called no more; the file system       *)
(* still completes what it was handed and calls the callbacks.             *)

NextClose ==
    \/ /\ writeStream # 0
       /\ \/ \E c \in CheckpointIds : MethodAppendLog(c)
          \/ \E c \in CheckpointIds : InitCheckpoint(c)
          \/ Detach
    \/ \E i \in DOMAIN calls : Resume(i)
    \/ \E i \in DOMAIN calls : ResumeAttached(i)
    \/ \E h \in DOMAIN handles : FsOpen(h)
    \/ \E h \in DOMAIN handles : FsWrite(h)
    \/ \E h \in DOMAIN handles : FsAck(h)
    \/ CloseAll

SpecClose == Init /\ [][NextClose]_vars

\* The write handles that were created and never ended.
OpenHandles == {h \in DOMAIN handles : ~handles[h].ended}

\* closeAll ran and nothing was opened since: the default stream has no
\* handle and the registry is empty (only close() sets writeStream to null).
Closed == writeStream = 0 /\ DOMAIN checkpointStreams = {}

----------------------------------------------------------------------------
(* The exit handlers the constructor installs (part_008:35-50).            *)

Signals == {"SIGINT", "SIGTERM"}

\* part_008:41-44 and :47-50: closeAll(), which is synchronous and only
\* asks each stream to end, then process.exit(0), which terminates the
\* process at once: what the streams still buffer is never written.
Signal(sig) ==
    /\ ~exited
    /\ SetMem(closeAll(Mem))
    /\ exited' = TRUE
    /\ UNCHANGED <<disk, calls, restart, clmVars, checkpoints, setCalls,
                   hmrVars, viteVars, reading>>

\* part_008:36-38: 'beforeExit' is emitted when the event loop has nothing
\* left to do, so no open, write or callback is outstanding; the streams
\* that closeAll ends have nothing to flush and the process ends.
BeforeExit ==
    /\ ~exited
    /\ \A h \in DOMAIN handles :
          handles[h].opened /\ handles[h].pending = <<>>
                            /\ handles[h].unacked = <<>>
    /\ SetMem(closeAll(Mem))
    /\ exited' = TRUE
    /\ UNCHANGED <<disk, calls, restart, clmVars, checkpoints, setCalls,
                   hmrVars, viteVars, reading>>

NextExit ==
    \/ ~exited /\ Next
    \/ \E sig \in Signals : Signal(sig)
    \/ BeforeExit

SpecExit == Init /\ [][NextExit]_vars

\* The entries that were handed to a stream and are not in its file.
Unflushed == UNION {Range(handles[h].pending) : h \in DOMAIN handles}

\* C14: the process terminates only after closeAll has run to completion:
\* when it has exited, every entry whose write was issued before has been
\* flushed to its segment file and no handle is left open.
C14_Claim == exited => (Unflushed = {} /\ OpenHandles = {})

----------------------------------------------------------------------------
(* The get-console-logs tool (browser-tools.ts:2660-2685) over a log       *)
(* directory in which a line that is not JSON was stored.  The producer    *)
(* only writes JSON.stringify(...) + '\n' (browser-tools.ts:1949-1959), so *)
(* such a line comes from outside the LogManager; it is written -k here,   *)
(* while the line of entry i is written i.                                 *)

MaxMalformed == 2
Malformed == {-k : k \in 1 .. MaxMalformed}

MalformedOnDisk ==
    {l \in Malformed : \E f \in DOMAIN disk : l \in Range(disk[f])}

\* A line that is not JSON is appended to a segment file.
Corrupt(f) ==
    /\ f \in DOMAIN disk
    /\ \E l \in Malformed \ MalformedOnDisk :
          disk' = [disk EXCEPT ![f] = Append(@, l)]
    /\ UNCHANGED <<handles, writeStream, currentLogCount, currentFileNumber,
                   recs, checkpointStreams, calls, restart, clmVars, srvVars>>

\* The console listener awaits each appendLog; the page has no checkpoint.
NextCorrupt ==
    \/ SeqAppendLog(NoCheckpoint)
    \/ \E h \in DOMAIN handles : FsOpen(h)
    \/ \E h \in DOMAIN handles : FsWrite(h)
    \/ \E h \in DOMAIN handles : FsAck(h)
    \/ \E f \in DOMAIN disk : Corrupt(f)

SpecCorrupt == Init /\ [][NextCorrupt]_vars

\* JSON.stringify of the entry of call i, without its '\n'
\* (browser-tools.ts:1949-1955), and the object JSON.parse gives for it.
Stringify(entry) == entry.call
Entry(i) == [type |-> "console", call |-> i,
             checkpointId |-> calls[i].checkpointId]

\* JSON.parse(log): throws on a line that is not JSON.
JsonParse(log) ==
    IF log \in DOMAIN calls
    THEN [threw |-> FALSE, value |-> Entry(log)]
    ELSE [threw |-> TRUE]

\* browser-tools.ts:2666-2672, the function mapped over result.logs (the
\* timestamp the fallback adds is the time of the query and is left out).
ParseLog(log) ==
    IF ~JsonParse(log).threw THEN JsonParse(log).value
    ELSE [type |-> "unknown", text |-> log]

\* A handler that drops the lines that do not parse.
GetConsoleLogs_Skip(limit, checkpoint) ==
    LET result == readLogs(limit, checkpoint)
        kept == SelectSeq(result.logs, LAMBDA log : ~JsonParse(log).threw)
    IN [logs |-> [k \in DOMAIN kept |-> ParseLog(kept[k])],
        writePosition |-> result.writePosition,
        totalLogs |-> result.totalLogs]

\* browser-tools.ts:2660-2685: what the tool hands to its caller.
GetConsoleLogs(limit, checkpoint) ==
    LET result == readLogs(limit, checkpoint)
    IN [logs |-> [k \in DOMAIN result.logs |-> ParseLog(result.logs[k])],
        writePosition |-> result.writePosition,
        totalLogs |-> result.totalLogs]

----------------------------------------------------------------------------
(* The set-checkpoint tool's store (browser-tools.ts:970-1042): a Map from *)
(* the checkpoint name to its data.  A Map iterates in the order its keys  *)
(* were first inserted; set() on a key it holds replaces the value and     *)
(* leaves the key where it is.                                             *)

\* browser-tools.ts:1039 sets 20; scaled so that three names exceed it.
MAX_CHECKPOINTS == 2
MaxSetCalls == 5
CheckpointNames == {"p", "q", "r"}

\* checkpoints.set(checkpointId, ...)
MapSet(keys, key) == IF key \in Range(keys) THEN keys ELSE Append(keys, key)

\* browser-tools.ts:1029-1042.
SetCheckpoint(name) ==
    /\ Len(setCalls) < MaxSetCalls
    /\ LET stored == MapSet(checkpoints, name)
       IN checkpoints' = IF Len(stored) > MAX_CHECKPOINTS
                         THEN Tail(stored) ELSE stored
    /\ setCalls' = Append(setCalls, name)
    /\ UNCHANGED <<lmVars, clmVars, exited, hmrVars, viteVars, reading>>

NextCheckpoints == \E name \in CheckpointNames : SetCheckpoint(name)

SpecCheckpoints == Init /\ [][NextCheckpoints]_vars

\* The number of the latest set-checkpoint call for a name.
LastSet(name) ==
    CHOOSE k \in DOMAIN setCalls :
        setCalls[k] = name /\ \A j \in DOMAIN setCalls : setCalls[j] = name => j <= k

\* The other names that were set after the latest set of a name.
SetSince(name) == {setCalls[k] : k \in LastSet(name) + 1 .. Len(setCalls)}

\* C16: the store keeps only the most recent checkpoints: it never holds
\* more than the maximum, and a checkpoint that was set and is no longer
\* held had at least that many other checkpoints set after it.
C16_Claim ==
    /\ Len(checkpoints) <= MAX_CHECKPOINTS
    /\ \A name \in Range(setCalls) \ Range(checkpoints) :
          Cardinality(SetSince(name)) >= MAX_CHECKPOINTS

----------------------------------------------------------------------------
\* C17: segment bound: in every reachable state, under any interleaving of
\* appendLog calls and write acknowledgements, no segment file of any
\* stream holds more than MAX_LOGS_PER_FILE entries.
C17_Claim ==
    \A f \in DOMAIN disk : Len(disk[f]) <= MAX_LOGS_PER_FILE

----------------------------------------------------------------------------
\* The streams that a rotation replaced: ended, with a later stream on the
\* next segment of the same stream key.
RotatedOut ==
    {h \in DOMAIN handles :
        /\ handles[h].ended
        /\ \E g \in DOMAIN handles :
              /\ g > h
              /\ handles[g].file
                   = [handles[h].file EXCEPT !.number = @ + 1]}

\* How many times entry i is stored in the segments of a stream.
Copies(i, checkpointId) ==
    Cardinality({k \in DOMAIN StreamContent(checkpointId) :
                    StreamContent(checkpointId)[k] = i})

\* C18: rotation boundary: once an append made the record count reach the
\* maximum, the segment is closed and segment number+1 is current before
\* any further entry is written (no entry is still to be written to a
\* segment that was rotated out), and every appended entry is stored
\* exactly once across the stream's segments, also with several appendLog
\* calls in flight.
C18_Claim ==
    /\ \A h \in RotatedOut : handles[h].pending = <<>>
    /\ Quiescent =>
          \A i \in DOMAIN calls :
              calls[i].wroteDefault # 0 => Copies(i, NoCheckpoint) = 1

----------------------------------------------------------------------------
\* The record count the manager holds for the current segment of a stream.
CurrentLogCount(checkpointId) ==
    IF checkpointId = NoCheckpoint THEN currentLogCount
    ELSE IF HasStream(Mem, checkpointId)
         THEN StreamData(Mem, checkpointId).currentLogCount ELSE 0

\* The streams that have a segment file.
StoredStreams == {c \in CheckpointArgs : LogFiles(c) # <<>>}

----------------------------------------------------------------------------
\* The stream keys the manager holds: the default stream and the registered
\* checkpoint streams.
StreamKeys == {NoCheckpoint} \cup DOMAIN checkpointStreams

\* The segment numbers of the files of a stream that exist on disk.
SegmentNumbers(checkpointId) ==
    {f.number : f \in {g \in DOMAIN disk :
                          g.prefix = getLogFilePath(0, checkpointId).prefix
                          /\ g.id = getLogFilePath(0, checkpointId).id}}

\* The in-memory current segment number of a stream.
CurrentFileNumber(checkpointId) ==
    IF checkpointId = NoCheckpoint THEN currentFileNumber
    ELSE StreamData(Mem, checkpointId).currentFileNumber

\* A write stream created for the current segment of the stream has opened
\* its file.
CurrentOpened(checkpointId) ==
    \E h \in DOMAIN handles :
        /\ handles[h].file
             = getLogFilePath(CurrentFileNumber(checkpointId), checkpointId)
        /\ handles[h].opened

(* A burst of console events: the listeners call appendLog for each event  *)
(* without waiting for the previous call (browser-tools.ts:1938-1959), so  *)
(* up to MaxBurst calls are in flight together.  The page has no           *)
(* checkpoint.                                                             *)

MaxBurst == 5

\* part_008:142-161, the synchronous part of the call, as in AppendLog.
BurstAppendLog ==
    /\ Len(calls) < MaxBurst
    /\ LET i == Len(calls) + 1
       IN IF Writable(Mem, writeStream)
          THEN /\ SetMem(WriteHandle(Mem, writeStream, i))
               /\ calls' = Append(calls, NewCall(NoCheckpoint, "default", writeStream))
          ELSE /\ SetMem(Mem)
               /\ calls' = Append(calls, NewCall(NoCheckpoint, "done", 0))
    /\ UNCHANGED <<disk, restart, clmVars, srvVars>>

NextBurst ==
    \/ BurstAppendLog
    \/ \E h \in DOMAIN handles : FsOpen(h)
    \/ \E h \in DOMAIN handles : FsWrite(h)
    \/ \E h \in DOMAIN handles : FsAck(h)

SpecBurst == Init /\ [][NextBurst]_vars

\* C20: in every reachable state, for every stream key the segment numbers
\* of the files on disk are exactly 0, 1, ..., n with no gap and the
\* in-memory current segment number is n; the file of the current segment
\* is allowed to be missing as long as the stream created for it has not
\* opened it (fs.createWriteStream creates the file asynchronously).
C20_Claim ==
    \A c \in StreamKeys :
        SegmentNumbers(c) = IF CurrentOpened(c)
                            THEN 0 .. CurrentFileNumber(c)
                            ELSE 0 .. CurrentFileNumber(c) - 1

----------------------------------------------------------------------------
\* A stream holds a write handle: the default stream, or the stream of a
\* checkpoint.
StreamOpen(checkpointId) ==
    IF checkpointId = NoCheckpoint THEN writeStream # 0
    ELSE HasStream(Mem, checkpointId)
         /\ StreamData(Mem, checkpointId).writeStream # 0

\* C21: stream handle life cycle: a stream that holds no write handle gets
\* one only by a write to that stream, that is by a step of an appendLog
\* call: a step that takes a stream from closed to open starts an appendLog
\* call or advances one.
C21_Claim ==
    [][\A c \in CheckpointArgs :
          (~StreamOpen(c) /\ StreamOpen(c)')
          => \/ Len(calls') = Len(calls) + 1
             \/ \E i \in DOMAIN calls :
                   /\ calls[i].pc \in {"resumed", "attached"}
                   /\ calls'[i].pc # calls[i].pc]_vars

----------------------------------------------------------------------------
(* Failing writes while checkpoint streams are registered.                 *)

NextMethodsFail ==
    \/ NextMethods
    \/ \E h \in DOMAIN handles : FsFail(h)

SpecMethodsFail == Init /\ [][NextMethodsFail]_vars

\* The calls that return in this step.
Returning == {i \in DOMAIN calls' : calls'[i].pc = "done"
                                    /\ (i \in DOMAIN calls => calls[i].pc # "done")}

\* The stream of checkpoint c holds a handle that takes writes.
StreamWritable(checkpointId) ==
    /\ StreamOpen(checkpointId)
    /\ Writable(Mem, StreamData(Mem, checkpointId).writeStream)

----------------------------------------------------------------------------
\* The default stream's handle failed (its file could not be opened or a
\* write was rejected) and is still the manager's handle.
DefaultBroken == writeStream # 0 /\ handles[writeStream].ended

\* C23: a stream whose file could not be opened is unusable only until the
\* next write: an appendLog call made while the default stream's handle is
\* broken initializes the stream again and hands its entry to a handle
\* that takes writes.
C23_Claim ==
    [][(DefaultBroken /\ Len(calls') = Len(calls) + 1)
          => LET h == calls'[Len(calls')].wroteDefault
             IN h # 0 /\ ~handles'[h].ended]_vars

----------------------------------------------------------------------------
IsPrefix(s, t) == Len(s) <= Len(t) /\ SubSeq(t, 1, Len(s)) = s

----------------------------------------------------------------------------
(* The HMR event buffer (index.ts:26), filled by the 'all' listener of the *)
(* Vite client (part_007:48-53), the WebSocket frame handler               *)
(* (browser-tools.ts:2034-2058), the console handler (:2061-2084) and the  *)
(* page-error handler (:2087-2100).  The last two first await              *)
(* appendLogToFile and put their event in the buffer when that returns; an *)
(* event object is created where it is put in the buffer, and stamp is the *)
(* order of creation.                                                      *)
MAX_HMR_EVENTS == 3
MaxHmrEvents == 5

SyncProducers == {"all", "websocket"}
AsyncProducers == {"console", "pageerror"}

\* lastHMREvents.unshift(e); if (length > MAX) pop(), with the newest event
\* dropped instead of the oldest.
PushEvent_Shift(buf, e) ==
    LET b == <<e>> \o buf
    IN IF Len(b) > MAX_HMR_EVENTS THEN SubSeq(b, 2, Len(b)) ELSE b

\* lastHMREvents.unshift(e); if (lastHMREvents.length > MAX) lastHMREvents.pop()
PushEvent(buf, e) ==
    LET b == <<e>> \o buf
    IN IF Len(b) > MAX_HMR_EVENTS THEN SubSeq(b, 1, Len(b) - 1) ELSE b

HmrStarted == hmrCreated + Len(hmrAwaiting)

\* An HMR message of the Vite client or a WebSocket frame of the page: the
\* handler puts the event in the buffer at once.
HmrEvent(p) ==
    /\ HmrStarted < MaxHmrEvents
    /\ hmrCreated' = hmrCreated + 1
    /\ lastHMREvents' = PushEvent(lastHMREvents,
                                  [type |-> p, stamp |-> hmrCreated + 1])
    /\ UNCHANGED <<lmVars, clmVars, exited, checkpoints, setCalls,
                   hmrAwaiting, viteVars, reading>>

\* A console message (hmr: its text matches the filter of
\* browser-tools.ts:2069-2071) or a page error: the handler starts and
\* awaits appendLogToFile.
BrowserEvent(p, hmr) ==
    /\ HmrStarted < MaxHmrEvents
    /\ p = "pageerror" => hmr
    /\ hmrAwaiting' = Append(hmrAwaiting, [type |-> p, hmr |-> hmr])
    /\ UNCHANGED <<lmVars, clmVars, exited, checkpoints, setCalls,
                   lastHMREvents, hmrCreated, viteVars, reading>>

\* appendLogToFile returned to the k-th waiting handler, which goes on.
BrowserEventResume(k) ==
    /\ k \in DOMAIN hmrAwaiting
    /\ hmrAwaiting' = SubSeq(hmrAwaiting, 1, k - 1)
                      \o SubSeq(hmrAwaiting, k + 1, Len(hmrAwaiting))
    /\ IF hmrAwaiting[k].hmr
       THEN /\ hmrCreated' = hmrCreated + 1
            /\ lastHMREvents' = PushEvent(lastHMREvents,
                                   [type |-> hmrAwaiting[k].type,
                                    stamp |-> hmrCreated + 1])
       ELSE UNCHANGED <<lastHMREvents, hmrCreated>>
    /\ UNCHANGED <<lmVars, clmVars, exited, checkpoints, setCalls, viteVars, reading>>

NextHMR ==
    \/ \E p \in SyncProducers : HmrEvent(p)
    \/ \E p \in AsyncProducers, hmr \in BOOLEAN : BrowserEvent(p, hmr)
    \/ \E k \in DOMAIN hmrAwaiting : BrowserEventResume(k)

SpecHMR == Init /\ [][NextHMR]_vars

\* C25: after any sequence of events of any of the producers the buffer
\* holds at most MAX_HMR_EVENTS events, newest first, and they are exactly
\* the newest ones put in: a full buffer has lost its oldest events only.
C25_BoundedQueue ==
    /\ Len(lastHMREvents) = Min(hmrCreated, MAX_HMR_EVENTS)
    /\ \A k \in DOMAIN lastHMREvents :
          lastHMREvents[k].stamp = hmrCreated - k + 1

\* A full buffer that has dropped events, holding events of a handler
\* that waited for appendLogToFile and of one that did not.
C25_Witness ==
    /\ Len(lastHMREvents) = MAX_HMR_EVENTS
    /\ hmrCreated > MAX_HMR_EVENTS
    /\ \E j, k \in DOMAIN lastHMREvents :
          /\ lastHMREvents[j].type \in SyncProducers
          /\ lastHMREvents[k].type \in AsyncProducers

----------------------------------------------------------------------------
(* Progress.  The event loop runs every continuation that is ready and the *)
(* file system completes every open and write it was handed, so the steps  *)
(* that are not a caller's are weakly fair.                                *)
Progress ==
    \/ \E i \in DOMAIN calls : Resume(i)
    \/ \E i \in DOMAIN calls : ResumeAttached(i)
    \/ \E h \in DOMAIN handles : FsOpen(h)
    \/ \E h \in DOMAIN handles : FsWrite(h)
    \/ \E h \in DOMAIN handles : FsAck(h)

SpecFair == Spec /\ WF_vars(Progress)
SpecMethodsFair == SpecMethods /\ WF_vars(Progress)

\* The promise of call i has settled and appendLog has returned.
Settled(i) == i \in DOMAIN calls /\ calls[i].pc = "done"

----------------------------------------------------------------------------
\* C27: every entry stored in a checkpoint stream's segments is also stored
\* in the default stream's segments, and an entry is handed to a checkpoint
\* stream only when it is already in the default stream's segments (never
\* after a failed default write).
C27_CheckpointSubset ==
    /\ \A c \in CheckpointIds :
          Range(StreamContent(c)) \subseteq Range(StreamContent(NoCheckpoint))
    /\ \A i \in DOMAIN calls :
          calls[i].wroteCheckpoint # 0
          => i \in Range(StreamContent(NoCheckpoint))

\* A checkpoint stream holds an entry, and a later call for that checkpoint
\* whose default write failed returned without an entry in either stream
\* while the checkpoint stream could still be written.
C27_Witness ==
    \E i, j \in DOMAIN calls :
        /\ calls[i].checkpointId = calls[j].checkpointId
        /\ i \in Range(StreamContent(calls[i].checkpointId))
        /\ calls[j].writeError /\ calls[j].pc = "done"
        /\ calls[j].wroteDefault # 0 /\ calls[j].wroteCheckpoint = 0
        /\ j \notin Range(StreamContent(NoCheckpoint))
        /\ StreamWritable(calls[j].checkpointId)

----------------------------------------------------------------------------
(* readLogs step by step.  Up to its first `for await` (part_008:196-249)  *)
(* the function runs without a pause: it lists the directory and fixes the *)
(* start position and logsNeeded from the record count.  Each file is then *)
(* read while appendLog calls and write callbacks go on, and is seen as it *)
(* is when it is read.                                                     *)
MaxReadAppends == 4
MaxReadLimit == 3
ReadLimits == (0 - 1) .. MaxReadLimit

NoRead == <<>>

\* part_008:196-249.
ReadStart(limit, checkpointId) ==
    /\ reading = NoRead
    /\ LET logFiles == LogFiles(checkpointId)
           totalLogs == readLogs(limit, checkpointId).totalLogs
           startPosition == Max(0, totalLogs - limit)
       IN reading' =
            [limit |-> limit,
             logFiles |-> IF totalLogs = 0 THEN <<>> ELSE logFiles,
             i |-> startPosition \div MAX_LOGS_PER_FILE,
             startFileIndex |-> startPosition \div MAX_LOGS_PER_FILE,
             startLogInFile |-> startPosition % MAX_LOGS_PER_FILE,
             logsNeeded |-> Min(limit, totalLogs),
             logs |-> <<>>]
    /\ UNCHANGED <<lmVars, clmVars, exited, checkpoints, setCalls,
                   hmrVars, viteVars>>

\* part_008:251-284, one turn of the loop over the files.
ReadFile ==
    /\ reading # NoRead
    /\ reading.i < Len(reading.logFiles) /\ reading.logsNeeded > 0
    /\ LET linesToSkip == IF reading.i = reading.startFileIndex
                             /\ reading.startLogInFile > 0
                          THEN reading.startLogInFile ELSE 0
           got == ReadLines(disk[reading.logFiles[reading.i + 1]],
                            linesToSkip, reading.logsNeeded)
       IN reading' = [reading EXCEPT !.i = @ + 1,
                                     !.logsNeeded = @ - Len(got),
                                     !.logs = @ \o got]
    /\ UNCHANGED <<lmVars, clmVars, exited, checkpoints, setCalls,
                   hmrVars, viteVars>>

\* part_008:286-291: the loop is over, reading.logs is returned.
ReadReturn ==
    /\ reading # NoRead
    /\ ~(reading.i < Len(reading.logFiles) /\ reading.logsNeeded > 0)
    /\ reading' = NoRead
    /\ UNCHANGED <<lmVars, clmVars, exited, checkpoints, setCalls,
                   hmrVars, viteVars>>

ReadAppendLog ==
    /\ Len(calls) < MaxReadAppends
    /\ AppendLog(NoCheckpoint)

NextRead ==
    \/ ReadAppendLog
    \/ \E h \in DOMAIN handles : FsOpen(h)
    \/ \E h \in DOMAIN handles : FsWrite(h)
    \/ \E h \in DOMAIN handles : FsAck(h)
    \/ \E limit \in ReadLimits : ReadStart(limit, NoCheckpoint)
    \/ ReadFile
    \/ ReadReturn

SpecRead == Init /\ [][NextRead]_vars

\* C28: readLogs(limit) never holds more than limit entries to return, and
\* none for limit <= 0, whatever was appended while it read and whatever
\* the files hold beyond the record count.
C28_LimitRespected ==
    /\ reading # NoRead => Len(reading.logs) <= Max(reading.limit, 0)
    /\ \A limit \in ReadLimits :
          Len(readLogs(limit, NoCheckpoint).logs) <= Max(limit, 0)

\* A read that has its limit of entries after reading a segment that holds
\* more lines than MAX_LOGS_PER_FILE, one of them not yet acknowledged.
C28_Witness ==
    /\ reading # NoRead
    /\ reading.limit > 0 /\ Len(reading.logs) = reading.limit
    /\ reading.i > reading.startFileIndex
    /\ \E f \in Range(reading.logFiles) : Len(disk[f]) > MAX_LOGS_PER_FILE
    /\ \E h \in DOMAIN handles : handles[h].unacked # <<>>

----------------------------------------------------------------------------
\* C29: after closeAll the manager stays closed (this.writeStream is null
\* from closeAll on), and an appendLog call made then writes nothing: no
\* file, counter or stream is touched, and the call returns at once
\* without a write error.
C29_Claim ==
    [][writeStream = 0
         => /\ writeStream' = 0
            /\ Len(calls') = Len(calls) + 1
               => /\ UNCHANGED <<disk, handles, currentLogCount,
                                 currentFileNumber, recs, checkpointStreams>>
                  /\ calls'[Len(calls')].pc = "done"
                  /\ calls'[Len(calls')].wroteDefault = 0
                  /\ ~calls'[Len(calls')].writeError]_vars

----------------------------------------------------------------------------
(* ViteHMRClient (screenshot.ts:286-386).  sockets[s] is the state of the  *)
(* s-th WebSocket the client created: "connecting", "open", "closing"      *)
(* (close() was called on it), "failed" (it emitted 'error'; 'close'       *)
(* follows) or "closed" (it emitted 'close').  The handlers registered in  *)
(* connect() are closures over the client, not over the socket they were   *)
(* registered on.  The url is one that `new WebSocket` accepts.            *)
MaxSockets == 3

\* screenshot.ts:301-355.
Connect ==
    /\ ~connectionPromise
    /\ Len(sockets) < MaxSockets
    /\ connectionPromise' = TRUE
    /\ sockets' = Append(sockets, "connecting")
    /\ ws' = Len(sockets) + 1
    /\ UNCHANGED <<lmVars, clmVars, exited, checkpoints, setCalls, hmrVars,
                   connected, reading>>

\* screenshot.ts:372-379.
ViteClose ==
    /\ ws # 0
    /\ sockets' = [sockets EXCEPT ![ws] =
                      IF @ \in {"connecting", "open"} THEN "closing" ELSE @]
    /\ ws' = 0
    /\ connected' = FALSE
    /\ connectionPromise' = FALSE
    /\ UNCHANGED <<lmVars, clmVars, exited, checkpoints, setCalls, hmrVars,
                   reading>>

\* The 'open' event of socket s (screenshot.ts:311-315).
SockOpen(s) ==
    /\ s \in DOMAIN sockets
    /\ sockets[s] = "connecting"
    /\ sockets' = [sockets EXCEPT ![s] = "open"]
    /\ connected' = TRUE
    /\ UNCHANGED <<lmVars, clmVars, exited, checkpoints, setCalls, hmrVars,
                   ws, connectionPromise, reading>>

\* The 'error' event of socket s (screenshot.ts:334-339): the handler
\* rejects the promise when not connected and changes no field.
SockError(s) ==
    /\ s \in DOMAIN sockets
    /\ sockets[s] \in {"connecting", "open"}
    /\ sockets' = [sockets EXCEPT ![s] = "failed"]
    /\ UNCHANGED <<lmVars, clmVars, exited, checkpoints, setCalls, hmrVars,
                   ws, connected, connectionPromise, reading>>

\* The 'close' event of socket s (screenshot.ts:341-346), after close(),
\* after an error, or because the server closed the connection.
SockClose(s) ==
    /\ s \in DOMAIN sockets
    /\ sockets[s] \in {"open", "closing", "failed"}
    /\ sockets' = [sockets EXCEPT ![s] = "closed"]
    /\ connected' = FALSE
    /\ ws' = 0
    /\ connectionPromise' = FALSE
    /\ UNCHANGED <<lmVars, clmVars, exited, checkpoints, setCalls, hmrVars,
                   reading>>

NextVite ==
    \/ Connect
    \/ ViteClose
    \/ \E s \in DOMAIN sockets : SockOpen(s)
    \/ \E s \in DOMAIN sockets : SockError(s)
    \/ \E s \in DOMAIN sockets : SockClose(s)

SpecVite == Init /\ [][NextVite]_vars

\* screenshot.ts:384-386.
isConnected == connected

\* C30: isConnected() is true only while the client holds a socket, and
\* the 'close' event of a socket the client no longer holds leaves the
\* state of the client (of its new connection) as it is.
C30_Claim ==
    [][/\ isConnected' => ws' # 0
       /\ \A s \in DOMAIN sockets :
             (sockets[s] # "closed" /\ sockets'[s] = "closed" /\ s # ws)
             => UNCHANGED <<ws, connected, connectionPromise>>]_vars

====
